---- MODULE Spec2Model ----
(***************************************************************************)
(* CivicSense: issue lifecycle, community voting, routing/assignment,      *)
(* karma and badges, notifications.  The store is modelled as a record of  *)
(* tables; every request handler is a function from store to store (and a *)
(* response code), translated from the handler's code.                     *)
(***************************************************************************)
EXTENDS Integers, Naturals, Sequences, FiniteSets, Bags, TLC

VARIABLES users, departments, issues, votes, comments, badges, updates,
          notifications, now, last, reqs

vars == <<users, departments, issues, votes, comments, badges, updates,
          notifications, now, last, reqs>>

(***************************************************************************)
(* Bounds of the model.                                                    *)
(***************************************************************************)
MaxOps == 3
MaxIssues == 1
MaxRequests == 2
MaxReports == 5

(***************************************************************************)
(* Enumerations of app/models.py.                                          *)
(***************************************************************************)
CITIZEN == "citizen"
ADMIN == "admin"
DEPARTMENT_STAFF == "department_staff"
UserRole == {CITIZEN, ADMIN, DEPARTMENT_STAFF}

SUBMITTED == "submitted"
ACKNOWLEDGED == "acknowledged"
IN_PROGRESS == "in_progress"
RESOLVED == "resolved"
CLOSED == "closed"
REJECTED == "rejected"
IssueStatus == {SUBMITTED, ACKNOWLEDGED, IN_PROGRESS, RESOLVED, CLOSED, REJECTED}

LOW == "low"
MEDIUM == "medium"
HIGH == "high"
URGENT == "urgent"
IssuePriority == {LOW, MEDIUM, HIGH, URGENT}

ROAD_MAINTENANCE == "road_maintenance"
STREETLIGHT == "streetlight"
SANITATION == "sanitation"
WATER_SUPPLY == "water_supply"
ELECTRICITY == "electricity"
TRAFFIC == "traffic"
PARKS == "parks"
CAT_OTHER == "other"
IssueCategory == {ROAD_MAINTENANCE, STREETLIGHT, SANITATION, WATER_SUPPLY,
                  ELECTRICITY, TRAFFIC, PARKS, CAT_OTHER}

VoteTypes == {"upvote", "confirm"}

\* None of Python / NULL of the store, for ids, timestamps and optional inputs.
None == 0
NoStatus == "none"
NoPriority == "none"
NoDepartment == "none"

(***************************************************************************)
(* Provisioned users and departments (app/init_db.py): one citizen, one    *)
(* administrator, one department staff member; the five seeded departments.*)
(***************************************************************************)
UserIds == {1, 2, 3}

SeedUsers ==
  [u \in UserIds |->
     [role |-> IF u = 1 THEN CITIZEN ELSE IF u = 2 THEN ADMIN ELSE DEPARTMENT_STAFF,
      is_active |-> TRUE,
      civic_karma |-> 0]]

SeedDepartments ==
  {"Public Works", "Sanitation Department", "Water Department",
   "Electricity Department", "Parks and Recreation"}

(***************************************************************************)
(* Inputs of the requests.                                                 *)
(***************************************************************************)
IssueIdInputs == 1..MaxIssues
CategoryInputs == {ROAD_MAINTENANCE}
PriorityInputs == {MEDIUM}
StatusInputs == {NoStatus, ACKNOWLEDGED, IN_PROGRESS, RESOLVED, CLOSED}
PriorityUpdateInputs == {NoPriority}
AssigneeInputs == {None, 3}
AssignToInputs == {1, 3}
\* latitude and longitude are required floats; whole degrees stand for them
CoordinateInputs == {12}

(***************************************************************************)
(* Bags (tables whose rows may repeat).                                    *)
(***************************************************************************)
BagAdd(B, e) == B (+) SetToBag({e})
BagRemove(B, e) == B (-) SetToBag({e})

\* number of rows of bag B that are in the set S
RECURSIVE SumCopies(_, _)
SumCopies(B, S) ==
  IF S = {} THEN 0
  ELSE LET e == CHOOSE x \in S : TRUE
       IN CopiesIn(e, B) + SumCopies(B, S \ {e})

\* the rows of bag B, each once
Rows(B) == BagToSet(B)

(***************************************************************************)
(* The store.                                                              *)
(***************************************************************************)
DB == [users |-> users, departments |-> departments, issues |-> issues,
       votes |-> votes, comments |-> comments, badges |-> badges,
       updates |-> updates, notifications |-> notifications]

Commit(d) ==
  /\ users' = d.users
  /\ departments' = d.departments
  /\ issues' = d.issues
  /\ votes' = d.votes
  /\ comments' = d.comments
  /\ badges' = d.badges
  /\ updates' = d.updates
  /\ notifications' = d.notifications

\* created_at: server_default=func.now(), the clock at the INSERT
Issue(category, priority, reporter_id, latitude, longitude, created_at) ==
  [category |-> category, status |-> SUBMITTED, priority |-> priority,
   latitude |-> latitude, longitude |-> longitude,
   reporter_id |-> reporter_id, assigned_to_id |-> None,
   department |-> NoDepartment,
   upvotes |-> 0, confirmations |-> 0, urgency_score |-> 0,
   created_at |-> created_at,
   acknowledged_at |-> None, resolved_at |-> None]

IssueVote(issue_id, user_id, vote_type) ==
  [issue_id |-> issue_id, user_id |-> user_id, vote_type |-> vote_type]

UserBadge(user_id, badge_name) ==
  [user_id |-> user_id, badge_name |-> badge_name]

IssueUpdate(issue_id, user_id, status, comment) ==
  [issue_id |-> issue_id, user_id |-> user_id, status |-> status,
   comment |-> comment]

\* message: the values interpolated into the message text; created_at:
\* server_default=func.now(), the clock at the INSERT
Notification(user_id, issue_id, title, message, created_at) ==
  [user_id |-> user_id, issue_id |-> issue_id, title |-> title,
   message |-> message, is_read |-> FALSE, created_at |-> created_at]

\* what a handler gives back: the store it leaves and its HTTP response
Response(d, status_code, detail) ==
  [db |-> d, status_code |-> status_code, detail |-> detail]

(***************************************************************************)
(* Karma and badges (app/services/karma.py).                               *)
(***************************************************************************)
BadgeKeys ==
  <<"first_report", "pothole_patriot", "streetlight_saver", "clean_up_crew",
    "water_warrior", "power_protector", "traffic_tracker", "park_patrol",
    "community_champion", "issue_resolver", "voting_veteran",
    "confirmation_king", "social_butterfly">>

\* BADGES[badge_key]["name"]
BADGES ==
  [k \in {BadgeKeys[n] : n \in DOMAIN BadgeKeys} |->
     CASE k = "first_report" -> "First Steps"
       [] k = "pothole_patriot" -> "Pothole Patriot"
       [] k = "streetlight_saver" -> "Streetlight Saver"
       [] k = "clean_up_crew" -> "Clean-Up Crew"
       [] k = "water_warrior" -> "Water Warrior"
       [] k = "power_protector" -> "Power Protector"
       [] k = "traffic_tracker" -> "Traffic Tracker"
       [] k = "park_patrol" -> "Park Patrol"
       [] k = "community_champion" -> "Community Champion"
       [] k = "issue_resolver" -> "Issue Resolver"
       [] k = "voting_veteran" -> "Voting Veteran"
       [] k = "confirmation_king" -> "Confirmation King"
       [] k = "social_butterfly" -> "Social Butterfly"]

\* user.issues, user.votes, user.comments, user.badges
user_issues(d, user_id) ==
  {i \in DOMAIN d.issues : d.issues[i].reporter_id = user_id}

issues_in_category(d, user_id, category) ==
  Cardinality({i \in user_issues(d, user_id) : d.issues[i].category = category})

user_votes(d, user_id, vote_type) ==
  SumCopies(d.votes, {v \in Rows(d.votes) :
                        v.user_id = user_id /\ v.vote_type = vote_type})

user_comments(d, user_id) ==
  SumCopies(d.comments, {c \in Rows(d.comments) : c.user_id = user_id})

user_badges(d, user_id) ==
  {b.badge_name : b \in {x \in BagToSet(d.badges) : x.user_id = user_id}}

\* the _check_* predicates, by badge key
check_function(badge_key, d, user_id) ==
  CASE badge_key = "first_report" ->
         Cardinality(user_issues(d, user_id)) >= 1
    [] badge_key = "pothole_patriot" ->
         issues_in_category(d, user_id, ROAD_MAINTENANCE) >= 5
    [] badge_key = "streetlight_saver" ->
         issues_in_category(d, user_id, STREETLIGHT) >= 3
    [] badge_key = "clean_up_crew" ->
         issues_in_category(d, user_id, SANITATION) >= 5
    [] badge_key = "water_warrior" ->
         issues_in_category(d, user_id, WATER_SUPPLY) >= 3
    [] badge_key = "power_protector" ->
         issues_in_category(d, user_id, ELECTRICITY) >= 3
    [] badge_key = "traffic_tracker" ->
         issues_in_category(d, user_id, TRAFFIC) >= 3
    [] badge_key = "park_patrol" ->
         issues_in_category(d, user_id, PARKS) >= 3
    [] badge_key = "community_champion" ->
         d.users[user_id].civic_karma >= 500
    [] badge_key = "issue_resolver" ->
         Cardinality({i \in user_issues(d, user_id) :
                        d.issues[i].status = RESOLVED}) >= 10
    [] badge_key = "voting_veteran" ->
         user_votes(d, user_id, "upvote") >= 50
    [] badge_key = "confirmation_king" ->
         user_votes(d, user_id, "confirm") >= 25
    [] badge_key = "social_butterfly" ->
         user_comments(d, user_id) >= 20

\* award_badge that also credits karma for the badge
award_badge_with_points(d, user_id, badge_name) ==
  [d EXCEPT !.badges = BagAdd(@, UserBadge(user_id, badge_name)),
            !.users[user_id].civic_karma = @ + 10]

award_badge(d, user_id, badge_name) ==
  [d EXCEPT !.badges = BagAdd(@, UserBadge(user_id, badge_name))]

\* The loop over badges_to_check, from position n on.  existing_badges is
\* the set of badge NAMES read before the loop; the loop tests badge KEYS
\* against it.
RECURSIVE check_badges_from(_, _, _, _)
check_badges_from(d, user_id, existing_badges, n) ==
  IF n > Len(BadgeKeys) THEN d
  ELSE LET badge_key == BadgeKeys[n]
           d1 == IF badge_key \notin existing_badges
                    /\ check_function(badge_key, d, user_id)
                 THEN award_badge(d, user_id, BADGES[badge_key])
                 ELSE d
       IN check_badges_from(d1, user_id, existing_badges, n + 1)

\* check_and_award_badges that credits karma to the user it evaluates
check_and_award_badges_crediting(d, user_id) ==
  IF user_id \notin DOMAIN d.users THEN d
  ELSE [check_badges_from(d, user_id, user_badges(d, user_id), 1)
          EXCEPT !.users[user_id].civic_karma = @ + 10]

\* check_and_award_badges that evaluates nothing
check_and_award_badges_skipped(d, user_id) == d

check_and_award_badges(d, user_id) ==
  IF user_id \notin DOMAIN d.users THEN d
  ELSE check_badges_from(d, user_id, user_badges(d, user_id), 1)

\* new_badges, the list check_and_award_badges returns
new_badges(d, user_id) ==
  IF user_id \notin DOMAIN d.users THEN <<>>
  ELSE LET awarded(badge_key) ==
             /\ badge_key \notin user_badges(d, user_id)
             /\ check_function(badge_key, d, user_id)
       IN SelectSeq(BadgeKeys, awarded)

\* award_karma without the evaluation of the badges
award_karma_unevaluated(d, user_id, points) ==
  IF user_id \notin DOMAIN d.users THEN d
  ELSE [d EXCEPT !.users[user_id].civic_karma = @ + points]

\* the value award_karma returns: False when the user is not found
award_karma_returns(d, user_id) == user_id \in DOMAIN d.users

award_karma(d, user_id, points) ==
  IF user_id \notin DOMAIN d.users THEN d
  ELSE check_and_award_badges(
         [d EXCEPT !.users[user_id].civic_karma = @ + points], user_id)

(***************************************************************************)
(* Voting (app/routers/social.py).                                         *)
(***************************************************************************)
existing_vote(d, issue_id, user_id, vote_type) ==
  CopiesIn(IssueVote(issue_id, user_id, vote_type), d.votes) > 0

\* voted_issue without the recomputation of the score
voted_issue_stale_score(issue, vote_type) ==
  IF vote_type = "upvote"
  THEN [issue EXCEPT !.upvotes = @ + 1]
  ELSE [issue EXCEPT !.confirmations = @ + 1]

\* issue.upvotes += 1 / issue.confirmations += 1 and the recomputed score,
\* on the issue row as this session loaded it
voted_issue(issue, vote_type) ==
  LET i1 == IF vote_type = "upvote"
            THEN [issue EXCEPT !.upvotes = @ + 1]
            ELSE [issue EXCEPT !.confirmations = @ + 1]
  IN [i1 EXCEPT !.urgency_score = (i1.upvotes * 2) + i1.confirmations]

\* the INSERT of the vote without the UPDATE of the tally
vote_commit_uncounted(d, loaded, issue_id, user_id, vote_type) ==
  [d EXCEPT !.votes = BagAdd(@, IssueVote(issue_id, user_id, vote_type))]

\* db.add(vote) ... db.commit(): the INSERT of the vote and the UPDATE of
\* the columns this session changed (the tally of vote_type, urgency_score),
\* computed from the row `loaded` at the start of the request
vote_commit(d, loaded, issue_id, user_id, vote_type) ==
  LET mine == voted_issue(loaded, vote_type)
  IN [d EXCEPT
        !.votes = BagAdd(@, IssueVote(issue_id, user_id, vote_type)),
        !.issues[issue_id] =
           IF vote_type = "upvote"
           THEN [@ EXCEPT !.upvotes = mine.upvotes,
                          !.urgency_score = mine.urgency_score]
           ELSE [@ EXCEPT !.confirmations = mine.confirmations,
                          !.urgency_score = mine.urgency_score]]

\* vote_on_issue without the look-up of an existing vote
vote_on_issue_unchecked(d, current_user, issue_id, vote_type) ==
  IF vote_type \notin VoteTypes
  THEN Response(d, 400, "Invalid vote type")
  ELSE IF issue_id \notin DOMAIN d.issues
  THEN Response(d, 404, "Issue not found")
  ELSE LET d1 == vote_commit(d, d.issues[issue_id], issue_id, current_user,
                             vote_type)
       IN Response(award_karma(d1, current_user, 1), 200, "voted")

\* vote_on_issue refusing the reporter of the issue
vote_on_issue_by_others(d, current_user, issue_id, vote_type) ==
  IF vote_type \notin VoteTypes
  THEN Response(d, 400, "Invalid vote type")
  ELSE IF issue_id \notin DOMAIN d.issues
  THEN Response(d, 404, "Issue not found")
  ELSE IF existing_vote(d, issue_id, current_user, vote_type)
          \/ d.issues[issue_id].reporter_id = current_user
  THEN Response(d, 400, "Already voted on this issue")
  ELSE LET d1 == vote_commit(d, d.issues[issue_id], issue_id, current_user,
                             vote_type)
       IN Response(award_karma(d1, current_user, 1), 200, "voted")

vote_on_issue(d, current_user, issue_id, vote_type) ==
  IF vote_type \notin VoteTypes
  THEN Response(d, 400, "Invalid vote type")
  ELSE IF issue_id \notin DOMAIN d.issues
  THEN Response(d, 404, "Issue not found")
  ELSE IF existing_vote(d, issue_id, current_user, vote_type)
  THEN Response(d, 400, "Already voted on this issue")
  ELSE LET d1 == vote_commit(d, d.issues[issue_id], issue_id, current_user,
                             vote_type)
       IN Response(award_karma(d1, current_user, 1), 200, "voted")

\* removed_issue without the recomputation of the score
removed_issue_stale_score(issue, vote_type) ==
  LET Max0(x) == IF x > 0 THEN x ELSE 0
  IN IF vote_type = "upvote"
     THEN [issue EXCEPT !.upvotes = Max0(@ - 1)]
     ELSE [issue EXCEPT !.confirmations = Max0(@ - 1)]

removed_issue(issue, vote_type) ==
  LET Max0(x) == IF x > 0 THEN x ELSE 0
      i1 == IF vote_type = "upvote"
            THEN [issue EXCEPT !.upvotes = Max0(@ - 1)]
            ELSE [issue EXCEPT !.confirmations = Max0(@ - 1)]
  IN [i1 EXCEPT !.urgency_score = (i1.upvotes * 2) + i1.confirmations]

\* remove_vote without the look-up of the vote
remove_vote_unchecked(d, current_user, issue_id, vote_type) ==
  IF issue_id \notin DOMAIN d.issues
  THEN Response(d, 404, "Vote not found")
  ELSE Response(
         [d EXCEPT
            !.issues[issue_id] = removed_issue(@, vote_type),
            !.votes = BagRemove(@, IssueVote(issue_id, current_user, vote_type))],
         200, "Vote removed successfully")

\* remove_vote taking back the point the vote earned
remove_vote_refunding(d, current_user, issue_id, vote_type) ==
  IF ~ existing_vote(d, issue_id, current_user, vote_type)
  THEN Response(d, 404, "Vote not found")
  ELSE Response(
         [d EXCEPT
            !.issues[issue_id] = removed_issue(@, vote_type),
            !.votes = BagRemove(@, IssueVote(issue_id, current_user, vote_type)),
            !.users[current_user].civic_karma = @ - 1],
         200, "Vote removed successfully")

remove_vote(d, current_user, issue_id, vote_type) ==
  IF ~ existing_vote(d, issue_id, current_user, vote_type)
  THEN Response(d, 404, "Vote not found")
  ELSE Response(
         [d EXCEPT
            !.issues[issue_id] = removed_issue(@, vote_type),
            !.votes = BagRemove(@, IssueVote(issue_id, current_user, vote_type))],
         200, "Vote removed successfully")

\* "new_score": issue.urgency_score in the body of the response r
new_score(r, issue_id) == r.db.issues[issue_id].urgency_score

\* add_comment costing the commenter a point
add_comment_charged(d, current_user, issue_id) ==
  IF issue_id \notin DOMAIN d.issues
  THEN Response(d, 404, "Issue not found")
  ELSE Response(
         [d EXCEPT
            !.comments = BagAdd(@, [issue_id |-> issue_id,
                                    user_id |-> current_user]),
            !.users[current_user].civic_karma = @ - 1],
         200, "Comment added successfully")

add_comment(d, current_user, issue_id) ==
  IF issue_id \notin DOMAIN d.issues
  THEN Response(d, 404, "Issue not found")
  ELSE LET d1 == [d EXCEPT !.comments =
                     BagAdd(@, [issue_id |-> issue_id, user_id |-> current_user])]
       IN Response(award_karma(d1, current_user, 1), 200,
                   "Comment added successfully")

(***************************************************************************)
(* Issues (app/routers/issues.py).                                         *)
(***************************************************************************)
\* the staff notified along with the administrators
admin_users_and_staff(d) == {u \in DOMAIN d.users : d.users[u].role # CITIZEN}

admin_users(d) == {u \in DOMAIN d.users : d.users[u].role = ADMIN}

RECURSIVE add_notifications(_, _, _, _, _, _)
add_notifications(B, recipients, issue_id, title, message, t) ==
  IF recipients = {} THEN B
  ELSE LET u == CHOOSE x \in recipients : TRUE
       IN add_notifications(
            BagAdd(B, Notification(u, issue_id, title, message, t)),
            recipients \ {u}, issue_id, title, message, t)

create_issue(d, current_user, category, priority, latitude, longitude, t) ==
  LET issue_id == Len(d.issues) + 1
      d1 == [d EXCEPT !.issues =
               Append(@, Issue(category, priority, current_user, latitude,
                               longitude, t))]
      d2 == award_karma(d1, current_user, 10)
  IN Response(
       [d2 EXCEPT !.notifications =
          add_notifications(@, admin_users(d2), issue_id, "New Issue Reported",
                            <<current_user>>, t)],
       200, "created")

\* the reporter of an issue let through as well
update_authorized_or_reporter(d, current_user, issue_id) ==
  \/ d.users[current_user].role # CITIZEN
  \/ d.issues[issue_id].reporter_id = current_user

\* "Only admins and department staff can update issues"
update_authorized(d, current_user, issue_id) ==
  d.users[current_user].role # CITIZEN

\* the status assigned, resolved_at never stamped
status_updated_unstamped(issue, status, t) ==
  [issue EXCEPT
     !.status = status,
     !.acknowledged_at =
        IF status = ACKNOWLEDGED /\ issue.acknowledged_at = None THEN t ELSE @]

\* the status assigned only while the issue is not in a terminal status
status_updated_unless_terminal(issue, status, t) ==
  IF issue.status \in {RESOLVED, CLOSED, REJECTED} THEN issue
  ELSE [issue EXCEPT !.status = status]

\* issue.status = update_data.status and the stamping of the lifecycle
\* timestamps (if ... elif ...); t: datetime.utcnow() of this request
status_updated(issue, status, t) ==
  [issue EXCEPT
     !.status = status,
     !.acknowledged_at =
        IF status = ACKNOWLEDGED /\ issue.acknowledged_at = None THEN t ELSE @,
     !.resolved_at =
        IF ~ (status = ACKNOWLEDGED /\ issue.acknowledged_at = None)
           /\ status = RESOLVED /\ issue.resolved_at = None
        THEN t ELSE @]

update_issue(d, current_user, issue_id, status, priority, assigned_to_id, comment, t) ==
  IF issue_id \notin DOMAIN d.issues
  THEN Response(d, 404, "Issue not found")
  ELSE IF ~ update_authorized(d, current_user, issue_id)
  THEN Response(d, 403, "Not authorized to update issues")
  ELSE
    LET issue == d.issues[issue_id]
        i1 == IF status # NoStatus THEN status_updated(issue, status, t)
              ELSE issue
        i2 == IF priority # NoPriority THEN [i1 EXCEPT !.priority = priority]
              ELSE i1
        i3 == IF assigned_to_id # None
              THEN [i2 EXCEPT !.assigned_to_id = assigned_to_id] ELSE i2
        d1 == [d EXCEPT !.issues[issue_id] = i3]
        \* read after issue.status was assigned
        old_status == i3.status
        status_message == IF status # NoStatus /\ status # old_status
                          THEN <<old_status, status>> ELSE <<>>
        comment_message == IF comment THEN <<"comment">> ELSE <<>>
        d2 == [d1 EXCEPT
                 !.updates = BagAdd(@,
                    IssueUpdate(issue_id, current_user,
                                IF status # NoStatus THEN status ELSE i3.status,
                                comment)),
                 !.notifications = BagAdd(@,
                    Notification(i3.reporter_id, issue_id, "Issue Update",
                                 <<status_message, comment_message>>, t))]
        d3 == IF status = RESOLVED
              THEN award_karma(d2, i3.reporter_id, 50) ELSE d2
    IN Response(IF comment \/ status # NoStatus THEN d3 ELSE d1, 200, "updated")

(***************************************************************************)
(* Users (app/routers/users.py).                                           *)
(***************************************************************************)
\* PUT /users/{user_id}; role: the new role, NoRole when the request has none
NoRole == "none"

update_user(d, current_user, user_id, role) ==
  IF d.users[current_user].role # ADMIN
  THEN Response(d, 403, "Only admins can update users")
  ELSE IF user_id \notin DOMAIN d.users
  THEN Response(d, 404, "User not found")
  ELSE Response(IF role # NoRole THEN [d EXCEPT !.users[user_id].role = role]
                ELSE d,
                200, "updated")

(***************************************************************************)
(* Notification service (app/services/notifications.py).                   *)
(***************************************************************************)
\* t: the clock of the request, at which the row is inserted
create_notification(d, user_id, title, message, issue_id, t) ==
  [d EXCEPT !.notifications =
     BagAdd(@, Notification(user_id, issue_id, title, message, t))]

notify_issue_status_change(d, issue_id, old_status, new_status, t) ==
  LET issue == d.issues[issue_id]
      d1 == create_notification(d, issue.reporter_id, "Issue Status Update",
                                <<old_status, new_status>>, issue_id, t)
  IN IF issue.assigned_to_id # None /\ issue.assigned_to_id # issue.reporter_id
     THEN create_notification(d1, issue.assigned_to_id, "Issue Status Update",
                              <<new_status>>, issue_id, t)
     ELSE d1

notify_issue_assigned(d, issue_id, assigned_user, t) ==
  create_notification(d, assigned_user, "Issue Assigned", <<>>, issue_id, t)

\* notification: the row with the given id (NoNotification: no such row);
\* result: the store and whether the row was found for this user
NoNotification == [user_id |-> None]

mark_notification_read(d, notification, user_id) ==
  IF notification \in Rows(d.notifications) /\ notification.user_id = user_id
  THEN [db |-> [d EXCEPT !.notifications =
                  BagAdd(BagRemove(@, notification),
                         [notification EXCEPT !.is_read = TRUE])],
        found |-> TRUE]
  ELSE [db |-> d, found |-> FALSE]

\* the rows that the UPDATE of mark_all_notifications_read changes
unread_of(B, user_id) == {n \in Rows(B) : n.user_id = user_id /\ ~ n.is_read}

\* result: the store and updated_count
mark_all_notifications_read(d, user_id) ==
  LET B == d.notifications
      updated == unread_of(B, user_id)
      kept == Rows(B) \ updated
      marked == {[n EXCEPT !.is_read = TRUE] : n \in updated}
      unread(m) == [m EXCEPT !.is_read = FALSE]
  IN [db |-> [d EXCEPT !.notifications =
                [m \in kept \cup marked |->
                   (IF m \in kept THEN B[m] ELSE 0)
                   + (IF m \in marked THEN B[unread(m)] ELSE 0)]],
      updated_count |-> SumCopies(B, updated)]

\* days_old in the unit of the clock; t: datetime.utcnow() of the call;
\* result: the store and deleted_count
cleanup_old_notifications(d, days_old, t) ==
  LET B == d.notifications
      cutoff_date == t - days_old
      old == {n \in Rows(B) : n.created_at < cutoff_date}
  IN [db |-> [d EXCEPT !.notifications = [n \in Rows(B) \ old |-> B[n]]],
      deleted_count |-> SumCopies(B, old)]

(***************************************************************************)
(* Routing service (app/services/routing.py).                              *)
(***************************************************************************)
CATEGORY_DEPARTMENT_MAPPING ==
  [c \in IssueCategory |->
     CASE c = ROAD_MAINTENANCE -> "Public Works"
       [] c = STREETLIGHT -> "Public Works"
       [] c = SANITATION -> "Sanitation Department"
       [] c = WATER_SUPPLY -> "Water Department"
       [] c = ELECTRICITY -> "Electricity Department"
       [] c = TRAFFIC -> "Traffic Department"
       [] c = PARKS -> "Parks and Recreation"
       [] c = CAT_OTHER -> "General Administration"]

\* route_issue without the test that the department was found
route_issue_unprovisioned(d, issue_id) ==
  LET department_name == CATEGORY_DEPARTMENT_MAPPING[d.issues[issue_id].category]
  IN [db |-> [d EXCEPT !.issues[issue_id].department = department_name],
      department |-> department_name]

\* result: the store and the department found (NoDepartment for None)
route_issue(d, issue_id) ==
  LET department_name == CATEGORY_DEPARTMENT_MAPPING[d.issues[issue_id].category]
  IN IF department_name \notin d.departments
     THEN [db |-> d, department |-> NoDepartment]
     ELSE [db |-> [d EXCEPT !.issues[issue_id].department = department_name],
           department |-> department_name]

get_available_staff(d, department_id) ==
  {u \in DOMAIN d.users :
     d.users[u].role = DEPARTMENT_STAFF /\ d.users[u].is_active}

\* first: the row the store returns first for the staff query (the query has
\* no ORDER BY); result: the store and the staff member assigned (None if none)
auto_assign_issue(d, issue_id, first) ==
  LET routed == IF d.issues[issue_id].department = NoDepartment
                THEN route_issue(d, issue_id)
                ELSE [db |-> d, department |-> d.issues[issue_id].department]
      d1 == routed.db
      available_staff == get_available_staff(d1, d1.issues[issue_id].department)
  IN IF routed.department = NoDepartment
     THEN [db |-> d1, assigned_staff |-> None]
     ELSE IF available_staff = {}
     THEN [db |-> d1, assigned_staff |-> None]
     ELSE [db |-> [d1 EXCEPT !.issues[issue_id].assigned_to_id = first,
                             !.issues[issue_id].status = ACKNOWLEDGED],
           assigned_staff |-> first]

\* priority_scores.get(issue.priority.value, 4)
priority_scores(priority) ==
  CASE priority = URGENT -> 10
    [] priority = HIGH -> 7
    [] priority = MEDIUM -> 4
    [] priority = LOW -> 1
    [] OTHER -> 4

critical_categories == {WATER_SUPPLY, ELECTRICITY, ROAD_MAINTENANCE}

\* the truth value Python gives a float: 0.0 is false
truthy(x) == x # 0

calculate_priority_score(issue) ==
  priority_scores(issue.priority)
  + (IF issue.category \in critical_categories THEN 3 ELSE 0)
  + (IF truthy(issue.latitude) /\ truthy(issue.longitude) THEN 1 ELSE 0)

\* the orders in which a query without ORDER BY may return the rows S
Orderings(S) ==
  {f \in [1..Cardinality(S) -> S] :
     \A a, b \in 1..Cardinality(S) : a # b => f[a] # f[b]}

\* the query selecting every issue that is not in a terminal status
priority_queue_rows_unfinished(d, department_id) ==
  {i \in DOMAIN d.issues :
     /\ d.issues[i].status \notin {RESOLVED, CLOSED, REJECTED}
     /\ department_id # NoDepartment => d.issues[i].department = department_id}

\* the issues selected by the query of get_priority_queue
priority_queue_rows(d, department_id) ==
  {i \in DOMAIN d.issues :
     /\ d.issues[i].status \in {SUBMITTED, ACKNOWLEDGED}
     /\ department_id # NoDepartment => d.issues[i].department = department_id}

\* sorted(issues, key=self.calculate_priority_score, reverse=True): a stable
\* sort, rows of equal score keep the order in which the store returned them
RECURSIVE sorted_by_priority_score(_, _)
sorted_by_priority_score(d, rows) ==
  IF rows = <<>> THEN <<>>
  ELSE LET n == Len(rows)
           x == rows[n]
           front == sorted_by_priority_score(d, SubSeq(rows, 1, n - 1))
           key(i) == calculate_priority_score(d.issues[i])
           k == Cardinality({a \in DOMAIN front : key(front[a]) >= key(x)})
       IN SubSeq(front, 1, k) \o <<x>> \o SubSeq(front, k + 1, Len(front))

\* rows: issues = query.all(), in the order the store returned them
get_priority_queue(d, department_id, rows) == sorted_by_priority_score(d, rows)

(***************************************************************************)
(* Administration (app/routers/admin.py).                                  *)
(***************************************************************************)
assign_issue(d, current_user, issue_id, assigned_to_id, t) ==
  IF d.users[current_user].role \notin {ADMIN, DEPARTMENT_STAFF}
  THEN Response(d, 403, "Not authorized to assign issues")
  ELSE IF issue_id \notin DOMAIN d.issues
  THEN Response(d, 404, "Issue not found")
  ELSE IF assigned_to_id \notin DOMAIN d.users
  THEN Response(d, 404, "User not found")
  ELSE IF d.users[assigned_to_id].role = CITIZEN
  THEN Response(d, 400, "Cannot assign issues to citizens")
  ELSE
    LET d1 == [d EXCEPT !.issues[issue_id].assigned_to_id = assigned_to_id,
                        !.issues[issue_id].status = ACKNOWLEDGED,
                        !.issues[issue_id].acknowledged_at = t]
        d2 == create_notification(d1, assigned_to_id, "Issue Assigned", <<>>,
                                  issue_id, t)
        d3 == create_notification(d2, d1.issues[issue_id].reporter_id,
                                  "Issue Acknowledged", <<>>, issue_id, t)
    IN Response(d3, 200, "Issue assigned successfully")

auto_route_issue(d, current_user, issue_id, first, t) ==
  IF d.users[current_user].role \notin {ADMIN, DEPARTMENT_STAFF}
  THEN Response(d, 403, "Not authorized to auto-route issues")
  ELSE IF issue_id \notin DOMAIN d.issues
  THEN Response(d, 404, "Issue not found")
  ELSE
    LET routed == route_issue(d, issue_id)
        assigned == auto_assign_issue(routed.db, issue_id, first)
        d1 == notify_issue_assigned(assigned.db, issue_id,
                                    assigned.assigned_staff, t)
        d2 == notify_issue_status_change(d1, issue_id, SUBMITTED, ACKNOWLEDGED, t)
    IN IF routed.department = NoDepartment
       THEN Response(routed.db, 400, "Could not route issue to department")
       ELSE IF assigned.assigned_staff = None
       THEN Response(assigned.db, 400, "Could not assign issue to staff")
       ELSE Response(d2, 200, "Issue auto-routed successfully")

\* the issue ids S by ORDER BY urgency_score DESC, created_at DESC; rows of
\* equal urgency_score and created_at in the order `rows` of the store
RECURSIVE ordered_by_urgency(_, _)
ordered_by_urgency(d, rows) ==
  IF rows = <<>> THEN <<>>
  ELSE LET n == Len(rows)
           x == rows[n]
           front == ordered_by_urgency(d, SubSeq(rows, 1, n - 1))
           NotAfter(i) ==
             \/ d.issues[i].urgency_score > d.issues[x].urgency_score
             \/ /\ d.issues[i].urgency_score = d.issues[x].urgency_score
                /\ d.issues[i].created_at >= d.issues[x].created_at
           k == Cardinality({a \in DOMAIN front : NotAfter(front[a])})
       IN SubSeq(front, 1, k) \o <<x>> \o SubSeq(front, k + 1, Len(front))

\* GET /admin/issues/priority-queue; detail: the ids of the issues listed
admin_get_priority_queue(d, current_user, rows) ==
  IF d.users[current_user].role \notin {ADMIN, DEPARTMENT_STAFF}
  THEN Response(d, 403, "Not authorized to view priority queue")
  ELSE Response(d, 200, ordered_by_urgency(d, rows))

(***************************************************************************)
(* The state machine: one action per request handler.                      *)
(***************************************************************************)
NoRequest == [pc |-> "idle"]

Init ==
  /\ users = SeedUsers
  /\ departments = SeedDepartments
  /\ issues = <<>>
  /\ votes = EmptyBag
  /\ comments = EmptyBag
  /\ badges = EmptyBag
  /\ updates = EmptyBag
  /\ notifications = EmptyBag
  /\ now = 0
  /\ last = [op |-> "init"]
  /\ reqs = [r \in 1..MaxRequests |-> NoRequest]

\* a handler ran to its response r
Handled(op, current_user, issue_id, arg, r) ==
  /\ now < MaxOps
  /\ now' = now + 1
  /\ Commit(r.db)
  /\ last' = [op |-> op, user |-> current_user, issue_id |-> issue_id,
              arg |-> arg, status_code |-> r.status_code, detail |-> r.detail]
  /\ UNCHANGED reqs

CreateIssue ==
  \E u \in UserIds, c \in CategoryInputs, p \in PriorityInputs,
     lat \in CoordinateInputs, lon \in CoordinateInputs :
    /\ Len(issues) < MaxIssues
    /\ Handled("create_issue", u, Len(issues) + 1, c,
               create_issue(DB, u, c, p, lat, lon, now + 1))

VoteOnIssue ==
  \E u \in UserIds, i \in IssueIdInputs, vt \in VoteTypes :
    Handled("vote_on_issue", u, i, vt, vote_on_issue(DB, u, i, vt))

RemoveVote ==
  \E u \in UserIds, i \in IssueIdInputs, vt \in VoteTypes :
    Handled("remove_vote", u, i, vt, remove_vote(DB, u, i, vt))

AddComment ==
  \E u \in UserIds, i \in IssueIdInputs :
    Handled("add_comment", u, i, <<>>, add_comment(DB, u, i))

UpdateIssue ==
  \E u \in UserIds, i \in IssueIdInputs, st \in StatusInputs,
     p \in PriorityUpdateInputs, a \in AssigneeInputs, c \in BOOLEAN :
    LET r == update_issue(DB, u, i, st, p, a, c, now + 1)
    IN \* last.arg: the status and comment applied, none when refused
       Handled("update_issue", u, i,
               IF r.status_code = 200 THEN <<st, c>> ELSE <<>>, r)

AssignIssue ==
  \E u \in UserIds, i \in IssueIdInputs, a \in AssignToInputs :
    Handled("assign_issue", u, i, a, assign_issue(DB, u, i, a, now + 1))

AutoRouteIssue ==
  \E u \in UserIds, i \in IssueIdInputs :
    \E first \in IF get_available_staff(DB, NoDepartment) = {} THEN {None}
                 ELSE get_available_staff(DB, NoDepartment) :
      Handled("auto_route_issue", u, i, first,
              auto_route_issue(DB, u, i, first, now + 1))

\* community voting on reported issues
NextVotes ==
  \/ CreateIssue
  \/ VoteOnIssue
  \/ RemoveVote

SpecVotes == Init /\ [][NextVotes]_vars

\* the lifecycle of reported issues
NextLifecycle ==
  \/ CreateIssue
  \/ UpdateIssue
  \/ AssignIssue
  \/ AutoRouteIssue

SpecLifecycle == Init /\ [][NextLifecycle]_vars

(***************************************************************************)
(* vote_on_issue as concurrent requests, each with its own session: the    *)
(* request reads the issue row and looks for an existing vote (VoteBegin), *)
(* and later commits what it computed from the row it read (VoteFinish).   *)
(***************************************************************************)
VoteBegin(r) ==
  \E u \in UserIds, i \in IssueIdInputs, vt \in VoteTypes :
    /\ reqs[r].pc = "idle"
    /\ reqs' = [reqs EXCEPT ![r] =
         IF i \notin DOMAIN issues
         THEN [pc |-> "done", user |-> u, issue_id |-> i, vote_type |-> vt,
               status_code |-> 404, detail |-> "Issue not found"]
         ELSE IF existing_vote(DB, i, u, vt)
         THEN [pc |-> "done", user |-> u, issue_id |-> i, vote_type |-> vt,
               status_code |-> 400, detail |-> "Already voted on this issue"]
         ELSE [pc |-> "checked", user |-> u, issue_id |-> i, vote_type |-> vt,
               loaded |-> issues[i]]]
    /\ UNCHANGED <<users, departments, issues, votes, comments, badges,
                   updates, notifications, now, last>>

VoteFinish(r) ==
  /\ reqs[r].pc = "checked"
  /\ LET q == reqs[r]
         d1 == vote_commit(DB, q.loaded, q.issue_id, q.user, q.vote_type)
     IN /\ Commit(award_karma(d1, q.user, 1))
        /\ reqs' = [reqs EXCEPT ![r] =
             [pc |-> "done", user |-> q.user, issue_id |-> q.issue_id,
              vote_type |-> q.vote_type, status_code |-> 200,
              detail |-> "voted"]]
  /\ UNCHANGED <<now, last>>

NextVoteRace ==
  \/ CreateIssue
  \/ \E r \in 1..MaxRequests : VoteBegin(r)
  \/ \E r \in 1..MaxRequests : VoteFinish(r)

SpecVoteRace == Init /\ [][NextVoteRace]_vars

(***************************************************************************)
(* The routing service on a store that holds reported issues: two staff    *)
(* members, each active or deactivated (routers/users.py), and two issues  *)
(* reported by the citizen before the run starts.                          *)
(***************************************************************************)
RoutingUsers(active3, active4) ==
  [u \in UserIds \cup {4} |->
     [role |-> IF u \in {3, 4} THEN DEPARTMENT_STAFF ELSE SeedUsers[u].role,
      is_active |-> IF u = 3 THEN active3 ELSE IF u = 4 THEN active4 ELSE TRUE,
      civic_karma |-> 0]]

RoutingSecondCategories == {WATER_SUPPLY, TRAFFIC}

\* the store after init_db without sample issues, with the given users
ProvisionedStore(us) ==
  [users |-> us, departments |-> SeedDepartments, issues |-> <<>>,
   votes |-> EmptyBag, comments |-> EmptyBag, badges |-> EmptyBag,
   updates |-> EmptyBag, notifications |-> EmptyBag]

\* the start of a run on the store d
InitStore(d) ==
  /\ users = d.users
  /\ departments = d.departments
  /\ issues = d.issues
  /\ votes = d.votes
  /\ comments = d.comments
  /\ badges = d.badges
  /\ updates = d.updates
  /\ notifications = d.notifications
  /\ now = 0
  /\ last = [op |-> "init"]
  /\ reqs = [r \in 1..MaxRequests |-> NoRequest]

InitRouting ==
  \E c1 \in IssueCategory, c2 \in RoutingSecondCategories,
     active3 \in BOOLEAN, active4 \in BOOLEAN :
    LET d0 == ProvisionedStore(RoutingUsers(active3, active4))
        d1 == create_issue(d0, 1, c1, MEDIUM, 12, 12, -2).db
        d2 == create_issue(d1, 1, c2, MEDIUM, 12, 12, -1).db
    IN InitStore(d2)

\* what a service method gives back: the store it leaves and its value
Returned(d, value) == Response(d, None, value)

RouteIssue ==
  \E i \in DOMAIN issues :
    LET r == route_issue(DB, i)
    IN Handled("route_issue", None, i, <<>>, Returned(r.db, r.department))

AutoAssignIssue ==
  \E i \in DOMAIN issues :
    \E first \in IF get_available_staff(DB, NoDepartment) = {} THEN {None}
                 ELSE get_available_staff(DB, NoDepartment) :
      LET r == auto_assign_issue(DB, i, first)
      IN Handled("auto_assign_issue", None, i, first,
                 Returned(r.db, r.assigned_staff))

NextRouting ==
  \/ RouteIssue
  \/ AutoAssignIssue
  \/ AutoRouteIssue

SpecRouting == InitRouting /\ [][NextRouting]_vars

(***************************************************************************)
(* The staff work queue on a store that holds two open issues reported by  *)
(* the citizen, of which one may have been upvoted by the administrator.   *)
(***************************************************************************)
QueueCoordinates == {0, 12}
QueueSecondPriorities == {LOW, URGENT}
QueueSecondCategories == {ROAD_MAINTENANCE, PARKS}
QueueDepartmentInputs == {NoDepartment, "Public Works"}

InitQueue ==
  \E p1 \in IssuePriority, c1 \in IssueCategory,
     lat1 \in QueueCoordinates, lon1 \in QueueCoordinates,
     p2 \in QueueSecondPriorities, c2 \in QueueSecondCategories,
     upvoted \in {None, 1, 2} :
    LET d0 == ProvisionedStore(SeedUsers)
        d1 == create_issue(d0, 1, c1, p1, lat1, lon1, -2).db
        d2 == create_issue(d1, 1, c2, p2, 12, 12, -1).db
        d3 == IF upvoted = None THEN d2
              ELSE vote_on_issue(d2, 2, upvoted, "upvote").db
    IN InitStore(d3)

GetPriorityQueue ==
  \E u \in UserIds :
    \E rows \in Orderings(priority_queue_rows(DB, NoDepartment)) :
      Handled("admin_get_priority_queue", u, None, rows,
              admin_get_priority_queue(DB, u, rows))

PriorityQueue ==
  \E dep \in QueueDepartmentInputs :
    \E rows \in Orderings(priority_queue_rows(DB, dep)) :
      Handled("get_priority_queue", None, None, rows,
              Returned(DB, get_priority_queue(DB, dep, rows)))

NextQueue ==
  \/ GetPriorityQueue
  \/ PriorityQueue

SpecQueue == InitQueue /\ [][NextQueue]_vars

(***************************************************************************)
(* The karma service called with any user id and any signed number of      *)
(* points, between reports and comments.                                   *)
(***************************************************************************)
UnknownUserId == 9
KarmaUserInputs == UserIds \cup {UnknownUserId}
KarmaPointInputs == {-10, 1, 500}

AwardKarma ==
  \E user_id \in KarmaUserInputs, points \in KarmaPointInputs :
    Handled("award_karma", None, None, <<user_id, points>>,
            Returned(award_karma(DB, user_id, points),
                     award_karma_returns(DB, user_id)))

CheckAndAwardBadges ==
  \E user_id \in KarmaUserInputs :
    Handled("check_and_award_badges", None, None, user_id,
            Returned(check_and_award_badges(DB, user_id),
                     new_badges(DB, user_id)))

NextKarma ==
  \/ CreateIssue
  \/ AddComment
  \/ AwardKarma
  \/ CheckAndAwardBadges

SpecKarma == Init /\ [][NextKarma]_vars

(***************************************************************************)
(* Reports of a citizen who has already reported some road maintenance     *)
(* issues, up to the thresholds of the reporting badges.                   *)
(***************************************************************************)
ReportCategoryInputs == {ROAD_MAINTENANCE, STREETLIGHT}

\* the store after n more reports of road maintenance issues by the citizen
RECURSIVE after_road_reports(_, _)
after_road_reports(d, n) ==
  IF n = 0 THEN d
  ELSE after_road_reports(
         create_issue(d, 1, ROAD_MAINTENANCE, MEDIUM, 12, 12, 0 - n).db, n - 1)

InitBadges ==
  \E n \in 0..(MaxReports - 1) :
    InitStore(after_road_reports(ProvisionedStore(SeedUsers), n))

ReportIssue ==
  \E u \in UserIds, c \in ReportCategoryInputs :
    /\ Len(issues) < MaxReports
    /\ Handled("create_issue", u, Len(issues) + 1, c,
               create_issue(DB, u, c, MEDIUM, 12, 12, now + 1))

NextBadges ==
  \/ ReportIssue
  \/ AddComment

SpecBadges == InitBadges /\ [][NextBadges]_vars

\* the requests that are rewarded with karma, and those that are not
NextRewards ==
  \/ CreateIssue
  \/ VoteOnIssue
  \/ RemoveVote
  \/ AddComment
  \/ UpdateIssue

SpecRewards == Init /\ [][NextRewards]_vars

(***************************************************************************)
(* award_karma as concurrent calls, each with its own session: the call    *)
(* commits the points and reads the user's existing badges                 *)
(* (AwardKarmaBegin), and later runs the loop over the badges against the  *)
(* badges it read (AwardKarmaFinish).                                      *)
(***************************************************************************)
RacePointInputs == {1, 500}

AwardKarmaBegin(r) ==
  \E user_id \in UserIds, points \in RacePointInputs :
    /\ reqs[r].pc = "idle"
    /\ users' = [users EXCEPT ![user_id].civic_karma = @ + points]
    /\ reqs' = [reqs EXCEPT ![r] =
         [pc |-> "evaluating", user |-> user_id, points |-> points,
          existing_badges |-> user_badges(DB, user_id)]]
    /\ UNCHANGED <<departments, issues, votes, comments, badges, updates,
                   notifications, now, last>>

AwardKarmaFinish(r) ==
  /\ reqs[r].pc = "evaluating"
  /\ Commit(check_badges_from(DB, reqs[r].user, reqs[r].existing_badges, 1))
  /\ reqs' = [reqs EXCEPT ![r].pc = "done"]
  /\ UNCHANGED <<now, last>>

NextKarmaRace ==
  \/ CreateIssue
  \/ \E r \in 1..MaxRequests : AwardKarmaBegin(r)
  \/ \E r \in 1..MaxRequests : AwardKarmaFinish(r)

SpecKarmaRace == Init /\ [][NextKarmaRace]_vars

(***************************************************************************)
(* The notification service: reading and cleaning up the notifications     *)
(* that submissions and assignments create.                                *)
(***************************************************************************)
DaysOldInputs == {0, 30}

MarkNotificationRead ==
  \E n \in Rows(notifications) \cup {NoNotification}, u \in UserIds :
    LET r == mark_notification_read(DB, n, u)
    IN Handled("mark_notification_read", u, None, n, Returned(r.db, r.found))

MarkAllNotificationsRead ==
  \E u \in UserIds :
    LET r == mark_all_notifications_read(DB, u)
    IN Handled("mark_all_notifications_read", u, None, <<>>,
               Returned(r.db, r.updated_count))

CleanupOldNotifications ==
  \E days_old \in DaysOldInputs :
    LET r == cleanup_old_notifications(DB, days_old, now + 1)
    IN Handled("cleanup_old_notifications", None, None, days_old,
               Returned(r.db, r.deleted_count))

NextNotifications ==
  \/ CreateIssue
  \/ AssignIssue
  \/ MarkNotificationRead
  \/ MarkAllNotificationsRead
  \/ CleanupOldNotifications

SpecNotifications == Init /\ [][NextNotifications]_vars

(***************************************************************************)
(* Submissions while an administrator changes the roles of the users.      *)
(***************************************************************************)
RoleInputs == UserRole \cup {NoRole}

UpdateUser ==
  \E u \in UserIds, target \in KarmaUserInputs, role \in RoleInputs :
    Handled("update_user", u, None, <<target, role>>,
            update_user(DB, u, target, role))

NextSubmission ==
  \/ CreateIssue
  \/ UpdateUser

SpecSubmission == Init /\ [][NextSubmission]_vars

(***************************************************************************)
(* Properties.                                                             *)
(***************************************************************************)
IssueIds == DOMAIN issues

\* C1: in every reachable state and for every issue,
\* urgency_score = 2 * upvotes + confirmations, whatever votes were cast or
\* removed, successfully or not.
C1_UrgencyScoreConsistent ==
  \A i \in IssueIds :
    issues[i].urgency_score = (2 * issues[i].upvotes) + issues[i].confirmations

\* an issue holding an upvote and a confirmation, after votes were cast
C1_Witness ==
  /\ last.op = "vote_on_issue"
  /\ last.status_code = 200
  /\ \E i \in IssueIds :
       /\ issues[i].upvotes = 1
       /\ issues[i].confirmations = 1
       /\ issues[i].urgency_score = 3

\* C2: a vote by a user who already holds a vote of that type on that issue
\* is refused as a duplicate and leaves the votes, the issue's tallies and
\* score and every user's karma as they were; so no (issue, user, vote_type)
\* ever has more than one vote record.
C2_DuplicateVoteRejected ==
  [][ /\ ( /\ last'.op = "vote_on_issue"
           /\ last'.arg \in VoteTypes
           /\ last'.issue_id \in IssueIds
           /\ existing_vote(DB, last'.issue_id, last'.user, last'.arg) )
         => /\ last'.status_code = 400
            /\ last'.detail = "Already voted on this issue"
            /\ UNCHANGED <<votes, issues, users, badges>>
      /\ \A v \in BagToSet(votes') : CopiesIn(v, votes') <= 1 ]_vars

\* a duplicate vote was attempted and refused
C2_Witness ==
  /\ last.op = "vote_on_issue"
  /\ last.status_code = 400
  /\ last.detail = "Already voted on this issue"
  /\ existing_vote(DB, last.issue_id, last.user, last.arg)

C4_BadgeAwardedOnce ==
  \A b \in BagToSet(badges) : CopiesIn(b, badges) <= 1

AcknowledgedOrLater == {ACKNOWLEDGED, IN_PROGRESS, RESOLVED, CLOSED}

\* C6: acknowledged_at is set exactly when the issue's status has been set
\* to ACKNOWLEDGED or a later state: an issue in one of these states has
\* acknowledged_at set, and acknowledged_at is first set only by a step
\* that leaves the issue in one of them.
C6_AcknowledgedAtIffAcknowledged ==
  [][ \A i \in DOMAIN issues' :
        /\ (issues'[i].status \in AcknowledgedOrLater)
             => (issues'[i].acknowledged_at # None)
        /\ ( /\ issues'[i].acknowledged_at # None
             /\ (i \in IssueIds => issues[i].acknowledged_at = None) )
             => (issues'[i].status \in AcknowledgedOrLater) ]_vars

\* C7: update_issue by a citizen is refused as unauthorized and changes
\* nothing: not the issue, no IssueUpdate, no notification, no karma, no
\* badge; also when the citizen reported the issue.
C7_CitizenUpdateRefused ==
  [][ ( /\ last'.op = "update_issue"
        /\ last'.issue_id \in IssueIds
        /\ users[last'.user].role = CITIZEN )
      => /\ last'.status_code = 403
         /\ UNCHANGED <<users, departments, issues, votes, comments, badges,
                        updates, notifications>> ]_vars

\* a citizen was refused the update of the issue they reported
C7_Witness ==
  /\ last.op = "update_issue"
  /\ last.status_code = 403
  /\ last.issue_id \in IssueIds
  /\ users[last.user].role = CITIZEN
  /\ issues[last.issue_id].reporter_id = last.user

reported_by(u) == {i \in IssueIds : issues[i].reporter_id = u}

\* C8: the reporter gains the resolution bonus of 50 once per issue that
\* was ever set to RESOLVED: with reports and resolutions the only sources
\* of karma, a user's karma is 10 for every issue reported plus 50 for every
\* reported issue that has been resolved.
C8_ResolutionBonusOnce ==
  \A u \in DOMAIN users :
    users[u].civic_karma =
      (10 * Cardinality(reported_by(u)))
      + (50 * Cardinality({i \in reported_by(u) : issues[i].resolved_at # None}))

\* C9: a request that changes an issue's status, or an update_issue that
\* records a comment, appends exactly one IssueUpdate with the issue, the
\* actor and the resulting status, and creates one notification for the
\* reporter of the issue.
C9_AuditRecordAndNotification ==
  [][ \A i \in IssueIds :
        ( /\ last'.op \in {"update_issue", "assign_issue", "auto_route_issue"}
          /\ last'.issue_id = i
          /\ last'.status_code = 200
          /\ \/ issues'[i].status # issues[i].status
             \/ last'.op = "update_issue" /\ last'.arg[1] # NoStatus
             \/ last'.op = "update_issue" /\ last'.arg[2] )
        => LET ToReporter(B) ==
                 SumCopies(B, {n \in Rows(B) :
                    n.user_id = issues[i].reporter_id /\ n.issue_id = i})
           IN /\ \E c \in BOOLEAN :
                   updates' = BagAdd(updates,
                      IssueUpdate(i, last'.user, issues'[i].status, c))
              /\ ToReporter(notifications') = ToReporter(notifications) + 1 ]_vars

\* C10: when update_issue changes the status of, or comments on, an issue
\* whose assignee is neither its reporter nor the acting user, a
\* notification is created for the assignee.
C10_AssigneeNotified ==
  [][ \A i \in IssueIds :
        ( /\ last'.op = "update_issue"
          /\ last'.issue_id = i
          /\ last'.status_code = 200
          /\ last'.arg[1] # NoStatus \/ last'.arg[2]
          /\ issues[i].assigned_to_id # None
          /\ issues'[i].assigned_to_id = issues[i].assigned_to_id
          /\ issues[i].assigned_to_id # issues[i].reporter_id
          /\ issues[i].assigned_to_id # last'.user )
        => LET ToAssignee(B) ==
                 SumCopies(B, {n \in Rows(B) :
                    n.user_id = issues[i].assigned_to_id /\ n.issue_id = i})
           IN ToAssignee(notifications') > ToAssignee(notifications) ]_vars

\* C11: remove_vote for an (issue, user, vote_type) that has no vote record
\* is refused with "Vote not found" and leaves every issue (tallies and
\* urgency_score), the vote records and every user's karma as they were.
C11_RemoveAbsentVoteRefused ==
  [][ ( /\ last'.op = "remove_vote"
        /\ ~ existing_vote(DB, last'.issue_id, last'.user, last'.arg) )
      => /\ last'.status_code = 404
         /\ last'.detail = "Vote not found"
         /\ UNCHANGED <<issues, votes, users, badges>> ]_vars

\* the removal of a vote never cast was refused, on an issue that holds
\* another user's vote of that type
C11_Witness ==
  /\ last.op = "remove_vote"
  /\ last.status_code = 404
  /\ last.issue_id \in IssueIds
  /\ ~ existing_vote(DB, last.issue_id, last.user, last.arg)
  /\ \E u \in UserIds : existing_vote(DB, last.issue_id, u, last.arg)

\* C12: wherever vote_on_issue succeeds, a remove_vote of the same
\* (issue, user, vote_type) right after it succeeds too and gives back the
\* issues (upvotes, confirmations, urgency_score) and the vote records of
\* before the vote; each of the two steps moves only the tally of vote_type,
\* by exactly 1, and returns the recomputed urgency_score.
C12_VoteThenRemoveRestores ==
  \A u \in UserIds, i \in IssueIds, vt \in VoteTypes :
    LET r1 == vote_on_issue(DB, u, i, vt)
        r2 == remove_vote(r1.db, u, i, vt)
        before == issues[i]
        voted == r1.db.issues[i]
        removed == r2.db.issues[i]
        Score(x) == (x.upvotes * 2) + x.confirmations
    IN r1.status_code = 200
       => /\ r2.status_code = 200
          /\ r2.db.issues = issues
          /\ r2.db.votes = votes
          /\ r1.db.votes = BagAdd(votes, IssueVote(i, u, vt))
          /\ voted.upvotes = before.upvotes + (IF vt = "upvote" THEN 1 ELSE 0)
          /\ voted.confirmations
               = before.confirmations + (IF vt = "confirm" THEN 1 ELSE 0)
          /\ removed.upvotes = voted.upvotes - (IF vt = "upvote" THEN 1 ELSE 0)
          /\ removed.confirmations
               = voted.confirmations - (IF vt = "confirm" THEN 1 ELSE 0)
          /\ new_score(r1, i) = Score(voted)
          /\ new_score(r2, i) = Score(removed)

\* a vote was cast and then removed: the issue is back without votes, the
\* voter keeps the karma of the vote
C12_Witness ==
  /\ last.op = "remove_vote"
  /\ last.status_code = 200
  /\ users[last.user].civic_karma >= 1
  /\ issues[last.issue_id].upvotes = 0
  /\ issues[last.issue_id].confirmations = 0
  /\ issues[last.issue_id].urgency_score = 0
  /\ votes = EmptyBag

\* C13: the table maps each of the 8 categories to one department name;
\* route_issue sets the issue's department to that name and returns it when
\* a department of that name is provisioned, and otherwise returns no
\* department and leaves the issue (department, assignee, status) as it was.
C13_RouteIssueByCategory ==
  [][ /\ DOMAIN CATEGORY_DEPARTMENT_MAPPING = IssueCategory
      /\ Cardinality(IssueCategory) = 8
      /\ \A i \in IssueIds :
           (last'.op = "route_issue" /\ last'.issue_id = i)
           => LET name == CATEGORY_DEPARTMENT_MAPPING[issues[i].category]
              IN IF name \in departments
                 THEN /\ last'.detail = name
                      /\ issues' = [issues EXCEPT ![i].department = name]
                 ELSE /\ last'.detail = NoDepartment
                      /\ issues' = issues ]_vars

\* routing just failed for an issue whose department is not provisioned,
\* after another issue was routed to its department
C13_Witness ==
  /\ last.op = "route_issue"
  /\ last.detail = NoDepartment
  /\ CATEGORY_DEPARTMENT_MAPPING[issues[last.issue_id].category] \notin departments
  /\ issues[last.issue_id].department = NoDepartment
  /\ \E j \in IssueIds :
       /\ issues[j].department # NoDepartment
       /\ issues[j].department = CATEGORY_DEPARTMENT_MAPPING[issues[j].category]

\* C14: auto_assign_issue assigns an issue only to active staff of the
\* issue's department (and fails when that department has none, whatever
\* staff other departments have): so the routed issues assigned to one
\* staff member are all of that staff member's department.
C14_StaffAssignedWithinDepartment ==
  \A i, j \in IssueIds :
    ( /\ issues[i].assigned_to_id # None
      /\ issues[i].assigned_to_id = issues[j].assigned_to_id
      /\ issues[i].department # NoDepartment
      /\ issues[j].department # NoDepartment )
    => issues[i].department = issues[j].department

\* C15: a successful auto_assign_issue on an issue not yet routed leaves
\* the issue with the department of its category, the chosen staff member
\* as assignee, status ACKNOWLEDGED and acknowledged_at stamped.
C15_AutoAssignAcknowledges ==
  [][ \A i \in IssueIds :
        ( /\ last'.op = "auto_assign_issue"
          /\ last'.issue_id = i
          /\ last'.detail # None
          /\ issues[i].department = NoDepartment )
        => /\ issues'[i].department
                = CATEGORY_DEPARTMENT_MAPPING[issues[i].category]
           /\ issues'[i].assigned_to_id = last'.detail
           /\ issues'[i].status = ACKNOWLEDGED
           /\ issues'[i].acknowledged_at # None ]_vars

\* C16: auto_assign_issue selects the available staff member with the
\* smallest id, whichever row the store returns first.
C16_AutoAssignSmallestStaffId ==
  [][ ( /\ last'.op = "auto_assign_issue"
        /\ last'.detail # None )
      => \A s \in get_available_staff(DB, NoDepartment) : last'.detail <= s ]_vars

\* C17: for every issue, calculate_priority_score is the base of its
\* priority (urgent 10, high 7, medium 4, low 1), plus 3 for the categories
\* water supply, electricity and road maintenance, plus 1 for its
\* coordinates (every issue has a latitude and a longitude, which may be 0).
C17_PriorityScoreTable ==
  \A i \in IssueIds :
    calculate_priority_score(issues[i])
      = (CASE issues[i].priority = URGENT -> 10
           [] issues[i].priority = HIGH -> 7
           [] issues[i].priority = MEDIUM -> 4
           [] issues[i].priority = LOW -> 1)
        + (IF issues[i].category \in {WATER_SUPPLY, ELECTRICITY, ROAD_MAINTENANCE}
           THEN 3 ELSE 0)
        + 1

\* C18: a staff work queue that was returned lists the issues by
\* priority_score descending, then urgency_score descending, then
\* created_at ascending: no issue is listed after one that it precedes in
\* that order.
C18_QueueOrdered ==
  ( /\ last.op \in {"admin_get_priority_queue", "get_priority_queue"}
    /\ last.status_code \in {200, None} )
  => LET q == last.detail
         Precedes(i, j) ==
           LET si == calculate_priority_score(issues[i])
               sj == calculate_priority_score(issues[j])
           IN \/ si > sj
              \/ /\ si = sj
                 /\ issues[i].urgency_score > issues[j].urgency_score
              \/ /\ si = sj
                 /\ issues[i].urgency_score = issues[j].urgency_score
                 /\ issues[i].created_at < issues[j].created_at
     IN \A a, b \in DOMAIN q : a < b => ~ Precedes(q[b], q[a])

\* C19: award_karma for an existing user returns True, adds exactly the
\* given points (of either sign) to that user's karma, leaves every other
\* user as they were and evaluates the user's badges (every badge whose
\* condition holds is then held by the user); for a user that does not
\* exist it returns False and changes no karma and no badge.
C19_AwardKarmaContract ==
  [][ last'.op = "award_karma"
      => LET u == last'.arg[1]
             points == last'.arg[2]
         IN IF u \in DOMAIN users
            THEN /\ last'.detail = TRUE
                 /\ users'[u].civic_karma = users[u].civic_karma + points
                 /\ \A v \in DOMAIN users \ {u} : users'[v] = users[v]
                 /\ \A k \in DOMAIN BADGES :
                      check_function(k, DB', u) => BADGES[k] \in user_badges(DB', u)
            ELSE /\ last'.detail = FALSE
                 /\ UNCHANGED <<users, badges>> ]_vars

\* 500 points were just awarded to a user, who now holds the badge of 500
\* karma
C19_Witness ==
  /\ last.op = "award_karma"
  /\ last.detail = TRUE
  /\ last.arg[2] = 500
  /\ users[last.arg[1]].civic_karma >= 500
  /\ "Community Champion" \in user_badges(DB, last.arg[1])

\* C20: every request changes each user's karma by the reward table and by
\* nothing else: 10 to the reporter for a created issue, 1 to the voter for
\* a vote cast, 1 to the commenter for a comment, 50 to the reporter of an
\* issue for an update that sets it to RESOLVED, and 0 otherwise, whatever
\* badges the request awards.
C20_RewardTable ==
  [][ \A u \in DOMAIN users :
        users'[u].civic_karma - users[u].civic_karma
          = (IF last'.op = "create_issue" /\ last'.status_code = 200
                /\ last'.user = u THEN 10 ELSE 0)
            + (IF last'.op = "vote_on_issue" /\ last'.status_code = 200
                  /\ last'.user = u THEN 1 ELSE 0)
            + (IF last'.op = "add_comment" /\ last'.status_code = 200
                  /\ last'.user = u THEN 1 ELSE 0)
            + (IF last'.op = "update_issue" /\ last'.status_code = 200
                  /\ last'.arg[1] = RESOLVED
                  /\ issues[last'.issue_id].reporter_id = u THEN 50 ELSE 0) ]_vars

\* an issue was just resolved: its reporter, who holds a badge, has the 10
\* of the report and the 50 of the resolution
C20_Witness ==
  /\ last.op = "update_issue"
  /\ last.status_code = 200
  /\ last.arg[1] = RESOLVED
  /\ users[issues[last.issue_id].reporter_id].civic_karma = 60
  /\ "First Steps" \in user_badges(DB, issues[last.issue_id].reporter_id)

\* C21: check_and_award_badges changes no user's karma (no user at all):
\* it only adds badge records, all of them of the user it evaluates.
C21_BadgeEvaluationFrame ==
  [][ last'.op = "check_and_award_badges"
      => /\ UNCHANGED <<users, departments, issues, votes, comments, updates,
                        notifications>>
         /\ badges \sqsubseteq badges'
         /\ \A b \in BagToSet(badges' (-) badges) : b.user_id = last'.arg ]_vars

\* an evaluation just awarded a badge to a user who has karma
C21_Witness ==
  /\ last.op = "check_and_award_badges"
  /\ last.detail # <<>>
  /\ last.arg \in DOMAIN users
  /\ users[last.arg].civic_karma > 0
  /\ \E b \in BagToSet(badges) : b.user_id = last.arg

C23_ConcurrentBadgeOnce ==
  \A r1, r2 \in 1..MaxRequests :
    ( /\ r1 # r2
      /\ reqs[r1].pc = "done"
      /\ reqs[r2].pc = "done"
      /\ reqs[r1].user = reqs[r2].user )
    => \A k \in DOMAIN BADGES :
         ( /\ check_function(k, DB, reqs[r1].user)
           /\ BADGES[k] \notin reqs[r1].existing_badges
           /\ BADGES[k] \notin reqs[r2].existing_badges )
         => CopiesIn(UserBadge(reqs[r1].user, BADGES[k]), badges) = 1

\* the number of notifications of user u in the table B
notifications_of(B, u) == SumCopies(B, {n \in Rows(B) : n.user_id = u})

\* C24: one request (an assignment, an auto-route, a status change, a
\* comment, a submission) creates at most one notification for any one
\* user, whatever roles the user has in it.
C24_OneNotificationPerEvent ==
  [][ \A u \in DOMAIN users :
        notifications_of(notifications', u)
          <= notifications_of(notifications, u) + 1 ]_vars

\* C25: a notification is created unread and is never deleted; afterwards
\* only its read flag changes, and only from unread to read: in every step
\* each notification of before is still there, read if it was read, and
\* the notifications that are read after the step existed before it.
C25_NotificationsPersist ==
  [][ LET read(n) == [n EXCEPT !.is_read = TRUE]
          unread(n) == [n EXCEPT !.is_read = FALSE]
          Total(B, n) == CopiesIn(unread(n), B) + CopiesIn(read(n), B)
          Read(B, n) == CopiesIn(read(n), B)
      IN \A n \in Rows(notifications) \cup Rows(notifications') :
           /\ Total(notifications', n) >= Total(notifications, n)
           /\ Read(notifications', n) >= Read(notifications, n)
           /\ Read(notifications', n) <= Total(notifications, n) ]_vars

\* C26: a submission creates, for the new issue, exactly one notification
\* for every user whose role is ADMIN when it is submitted and none for any
\* other user, and no notification for another issue.
C26_SubmissionNotifiesAdmins ==
  [][ (last'.op = "create_issue" /\ last'.status_code = 200)
      => \A u \in DOMAIN users :
           LET About(B) ==
                 SumCopies(B, {n \in Rows(B) :
                    n.user_id = u /\ n.issue_id = last'.issue_id})
           IN /\ About(notifications')
                   = (IF users[u].role = ADMIN THEN 1 ELSE 0)
              /\ notifications_of(notifications', u) - About(notifications')
                   = notifications_of(notifications, u) ]_vars

\* an issue was just submitted while two users were administrators: both
\* have its notification, the third user has none
C26_Witness ==
  /\ last.op = "create_issue"
  /\ last.status_code = 200
  /\ Cardinality(admin_users(DB)) = 2
  /\ \A u \in DOMAIN users :
       notifications_of(notifications, u)
         = (IF u \in admin_users(DB) THEN 1 ELSE 0)

(***************************************************************************)
(* Voting on the store that create_sample_data (app/init_db.py) leaves:    *)
(* citizens with initial karma and a sample issue of one of them, on       *)
(* which the first citizens other than its reporter have voted.            *)
(***************************************************************************)
\* the first three citizen_users of create_sample_data
SampleUsers ==
  [u \in UserIds |->
     [role |-> CITIZEN, is_active |-> TRUE,
      civic_karma |-> IF u = 1 THEN 150 ELSE IF u = 2 THEN 75 ELSE 200]]

\* "Overflowing Trash Bin", reported by a citizen picked at random
sample_issue(reporter) ==
  [Issue(SANITATION, HIGH, reporter, 12, 12, -1)
     EXCEPT !.department = "Sanitation Department"]

\* for i in range(n): a vote of vote_type by citizens[i], unless the
\* reporter, with the tally raised by one
RECURSIVE sample_votes(_, _, _, _, _)
sample_votes(d, issue_id, citizens, n, vote_type) ==
  IF n = 0 THEN d
  ELSE LET d1 == sample_votes(d, issue_id, citizens, n - 1, vote_type)
           voter == citizens[n]
       IN IF voter = d1.issues[issue_id].reporter_id THEN d1
          ELSE [d1 EXCEPT
                  !.votes = BagAdd(@, IssueVote(issue_id, voter, vote_type)),
                  !.issues[issue_id] =
                     IF vote_type = "upvote"
                     THEN [@ EXCEPT !.upvotes = @ + 1]
                     ELSE [@ EXCEPT !.confirmations = @ + 1]]

Min(a, b) == IF a < b THEN a ELSE b

\* the votes of create_sample_data on one issue; citizens: the citizens in
\* the order the query returned them
create_sample_votes(d, issue_id, citizens) ==
  LET d1 == sample_votes(d, issue_id, citizens, Min(3, Len(citizens)), "upvote")
      d2 == sample_votes(d1, issue_id, citizens, Min(2, Len(citizens)), "confirm")
  IN [d2 EXCEPT !.issues[issue_id].urgency_score =
        (d2.issues[issue_id].upvotes * 2) + d2.issues[issue_id].confirmations]

InitSampleData ==
  \E reporter \in UserIds, citizens \in Orderings(UserIds) :
    LET d0 == ProvisionedStore(SampleUsers)
        d1 == [d0 EXCEPT !.issues = <<sample_issue(reporter)>>]
    IN InitStore(create_sample_votes(d1, 1, citizens))

NextSampleVotes ==
  \/ VoteOnIssue
  \/ RemoveVote

SpecSampleVotes == InitSampleData /\ [][NextSampleVotes]_vars

\* the sample data after a citizen voted on the sample issue and took the
\* vote back (or, holding that vote from the sample data, was refused and
\* took the sample vote back)
InitVoteCycle ==
  \E reporter \in UserIds, citizens \in Orderings(UserIds),
     voter \in UserIds, vt \in VoteTypes :
    LET d0 == ProvisionedStore(SampleUsers)
        d1 == [d0 EXCEPT !.issues = <<sample_issue(reporter)>>]
        d2 == create_sample_votes(d1, 1, citizens)
        d3 == vote_on_issue(d2, voter, 1, vt).db
    IN InitStore(remove_vote(d3, voter, 1, vt).db)

SpecVoteCycle == InitVoteCycle /\ [][NextSampleVotes]_vars

\* update_issue with the id of any user as assigned_to_id and nothing else
\* in the body of the request
UpdateIssueAssignee ==
  \E u \in UserIds, i \in IssueIdInputs, a \in UserIds :
    LET r == update_issue(DB, u, i, NoStatus, NoPriority, a, FALSE, now + 1)
    IN Handled("update_issue", u, i,
               IF r.status_code = 200 THEN <<NoStatus, FALSE>> ELSE <<>>, r)

\* the ways an issue gets its assignee
NextAssignment ==
  \/ CreateIssue
  \/ UpdateIssueAssignee
  \/ AssignIssue
  \/ AutoRouteIssue

SpecAssignment == Init /\ [][NextAssignment]_vars

\* update_issue with a status of the whole IssueStatus enumeration and
\* nothing else in the body of the request
UpdateIssueStatus ==
  \E u \in UserIds, i \in IssueIdInputs, st \in IssueStatus :
    LET r == update_issue(DB, u, i, st, NoPriority, None, FALSE, now + 1)
    IN Handled("update_issue", u, i,
               IF r.status_code = 200 THEN <<st, FALSE>> ELSE <<>>, r)

\* the status of a reported issue set again and again
NextTransitions ==
  \/ CreateIssue
  \/ UpdateIssueStatus

SpecTransitions == Init /\ [][NextTransitions]_vars

(***************************************************************************)
(* The staff work queue while the status of an issue changes: a store with *)
(* a road issue (Public Works) that is submitted or resolved and a         *)
(* sanitation issue (Sanitation Department) that is submitted or in        *)
(* progress, both routed.                                                  *)
(***************************************************************************)
MembershipFirstStatuses == {NoStatus, RESOLVED}
MembershipSecondStatuses == {NoStatus, IN_PROGRESS}

InitMembership ==
  \E s1 \in MembershipFirstStatuses, s2 \in MembershipSecondStatuses :
    LET d0 == ProvisionedStore(SeedUsers)
        d1 == create_issue(d0, 1, ROAD_MAINTENANCE, MEDIUM, 12, 12, -4).db
        d2 == create_issue(d1, 1, SANITATION, MEDIUM, 12, 12, -3).db
        d3 == route_issue(route_issue(d2, 1).db, 2).db
        d4 == update_issue(d3, 2, 1, s1, NoPriority, None, FALSE, -2).db
        d5 == update_issue(d4, 2, 2, s2, NoPriority, None, FALSE, -1).db
    IN InitStore(d5)

\* update_issue by the member of the department staff, with a status of the
\* whole IssueStatus enumeration and nothing else in the body of the request
StaffUpdateIssueStatus ==
  \E i \in IssueIdInputs, st \in IssueStatus :
    LET r == update_issue(DB, 3, i, st, NoPriority, None, FALSE, now + 1)
    IN Handled("update_issue", 3, i,
               IF r.status_code = 200 THEN <<st, FALSE>> ELSE <<>>, r)

\* IssueRoutingService.get_priority_queue(department_id); last.arg: the
\* department asked for
DepartmentQueue ==
  \E dep \in QueueDepartmentInputs :
    \E rows \in Orderings(priority_queue_rows(DB, dep)) :
      Handled("get_priority_queue", None, None, dep,
              Returned(DB, get_priority_queue(DB, dep, rows)))

NextMembership ==
  \/ StaffUpdateIssueStatus
  \/ GetPriorityQueue
  \/ DepartmentQueue

SpecMembership == InitMembership /\ [][NextMembership]_vars

\* the operations of the engine on issues: reporting, voting, commenting,
\* updating and assigning
NextEngine ==
  \/ CreateIssue
  \/ VoteOnIssue
  \/ RemoveVote
  \/ AddComment
  \/ UpdateIssue
  \/ AssignIssue

SpecEngine == Init /\ [][NextEngine]_vars

(***************************************************************************)
(* The handlers when an exception is raised inside check_and_award_badges, *)
(* at position k of the loop over badges_to_check (k = 1: before any badge *)
(* was awarded): its except branch logs the error and returns [], without  *)
(* a rollback, so the badges awarded before position k stay committed and  *)
(* award_karma, which has committed the points before the call, returns    *)
(* True.                                                                   *)
(***************************************************************************)
\* the loop over badges_to_check from position n up to the exception at k
RECURSIVE check_badges_until(_, _, _, _, _)
check_badges_until(d, user_id, existing_badges, n, k) ==
  IF n >= k \/ n > Len(BadgeKeys) THEN d
  ELSE LET badge_key == BadgeKeys[n]
           d1 == IF badge_key \notin existing_badges
                    /\ check_function(badge_key, d, user_id)
                 THEN award_badge(d, user_id, BADGES[badge_key])
                 ELSE d
       IN check_badges_until(d1, user_id, existing_badges, n + 1, k)

\* award_karma whose points are lost with the failed evaluation
award_karma_badge_error_undone(d, user_id, points, k) == d

award_karma_badge_error(d, user_id, points, k) ==
  IF user_id \notin DOMAIN d.users THEN d
  ELSE check_badges_until(
         [d EXCEPT !.users[user_id].civic_karma = @ + points], user_id,
         user_badges(d, user_id), 1, k)

vote_on_issue_badge_error(d, current_user, issue_id, vote_type, k) ==
  IF vote_on_issue(d, current_user, issue_id, vote_type).status_code # 200
  THEN vote_on_issue(d, current_user, issue_id, vote_type)
  ELSE Response(
         award_karma_badge_error(
           vote_commit(d, d.issues[issue_id], issue_id, current_user,
                       vote_type),
           current_user, 1, k),
         200, "voted")

add_comment_badge_error(d, current_user, issue_id, k) ==
  IF issue_id \notin DOMAIN d.issues
  THEN Response(d, 404, "Issue not found")
  ELSE Response(
         award_karma_badge_error(
           [d EXCEPT !.comments =
              BagAdd(@, [issue_id |-> issue_id, user_id |-> current_user])],
           current_user, 1, k),
         200, "Comment added successfully")

create_issue_badge_error(d, current_user, category, priority, latitude, longitude, t, k) ==
  LET issue_id == Len(d.issues) + 1
      d1 == [d EXCEPT !.issues =
               Append(@, Issue(category, priority, current_user, latitude,
                               longitude, t))]
      d2 == award_karma_badge_error(d1, current_user, 10, k)
  IN Response(
       [d2 EXCEPT !.notifications =
          add_notifications(@, admin_users(d2), issue_id, "New Issue Reported",
                            <<current_user>>, t)],
       200, "created")

\* update_issue to RESOLVED: award_karma changes only users and badges, so
\* the store the handler passes to it is the store update_issue leaves with
\* the users and badges it found
update_issue_badge_error(d, current_user, issue_id, priority, assigned_to_id, comment, t, k) ==
  LET r == update_issue(d, current_user, issue_id, RESOLVED, priority,
                        assigned_to_id, comment, t)
      d2 == [r.db EXCEPT !.users = d.users, !.badges = d.badges]
  IN IF r.status_code # 200 THEN r
     ELSE Response(
            award_karma_badge_error(d2, d.issues[issue_id].reporter_id, 50, k),
            200, "updated")

\* the positions of the exception: before the first badge, at the last one
BadgeErrorInputs == {1, Len(BadgeKeys)}
\* the points of a direct call of award_karma: enough for a badge
BadgeErrorPointInputs == {500}

AwardKarmaBadgeError ==
  \E user_id \in KarmaUserInputs, points \in BadgeErrorPointInputs,
     k \in BadgeErrorInputs :
    Handled("award_karma", None, None, <<user_id, points>>,
            Returned(award_karma_badge_error(DB, user_id, points, k),
                     award_karma_returns(DB, user_id)))

VoteOnIssueBadgeError ==
  \E u \in UserIds, i \in IssueIdInputs, vt \in VoteTypes,
     k \in BadgeErrorInputs :
    Handled("vote_on_issue", u, i, vt,
            vote_on_issue_badge_error(DB, u, i, vt, k))

AddCommentBadgeError ==
  \E u \in UserIds, i \in IssueIdInputs, k \in BadgeErrorInputs :
    Handled("add_comment", u, i, <<>>, add_comment_badge_error(DB, u, i, k))

CreateIssueBadgeError ==
  \E u \in UserIds, c \in CategoryInputs, p \in PriorityInputs,
     lat \in CoordinateInputs, lon \in CoordinateInputs,
     k \in BadgeErrorInputs :
    /\ Len(issues) < MaxIssues
    /\ Handled("create_issue", u, Len(issues) + 1, c,
               create_issue_badge_error(DB, u, c, p, lat, lon, now + 1, k))

UpdateIssueBadgeError ==
  \E u \in UserIds, i \in IssueIdInputs, p \in PriorityUpdateInputs,
     c \in BOOLEAN, k \in BadgeErrorInputs :
    LET r == update_issue_badge_error(DB, u, i, p, None, c, now + 1, k)
    IN Handled("update_issue", u, i,
               IF r.status_code = 200 THEN <<RESOLVED, c>> ELSE <<>>, r)

\* the rewarded actions, with and without an exception in the evaluation
\* of the badges
NextBadgeError ==
  \/ CreateIssue
  \/ CreateIssueBadgeError
  \/ VoteOnIssueBadgeError
  \/ AddCommentBadgeError
  \/ UpdateIssueBadgeError
  \/ AwardKarmaBadgeError

SpecBadgeError == Init /\ [][NextBadgeError]_vars

(***************************************************************************)
(* The handlers when the store raises inside award_karma (at its query of  *)
(* the user or at its commit): the except branch of award_karma rolls the  *)
(* session back and returns False, and the handler, which ignores the      *)
(* returned value, goes on with the same session.                          *)
(***************************************************************************)
\* self.db.rollback(): what the session had pending is discarded, the store
\* stays as it was last committed
award_karma_rollback(committed) == committed

\* vote_on_issue: db.commit() precedes award_karma
vote_on_issue_karma_error(d, current_user, issue_id, vote_type) ==
  IF vote_on_issue(d, current_user, issue_id, vote_type).status_code # 200
  THEN vote_on_issue(d, current_user, issue_id, vote_type)
  ELSE Response(
         award_karma_rollback(
           vote_commit(d, d.issues[issue_id], issue_id, current_user,
                       vote_type)),
         200, "voted")

\* add_comment: db.commit() precedes award_karma
add_comment_karma_error(d, current_user, issue_id) ==
  IF issue_id \notin DOMAIN d.issues
  THEN Response(d, 404, "Issue not found")
  ELSE Response(
         award_karma_rollback(
           [d EXCEPT !.comments =
              BagAdd(@, [issue_id |-> issue_id, user_id |-> current_user])]),
         200, "Comment added successfully")

\* create_issue: the issue is committed before award_karma, the
\* notifications of the administrators are added and committed after it
create_issue_karma_error(d, current_user, category, priority, latitude, longitude, t) ==
  LET issue_id == Len(d.issues) + 1
      d1 == [d EXCEPT !.issues =
               Append(@, Issue(category, priority, current_user, latitude,
                               longitude, t))]
      d2 == award_karma_rollback(d1)
  IN Response(
       [d2 EXCEPT !.notifications =
          add_notifications(@, admin_users(d2), issue_id, "New Issue Reported",
                            <<current_user>>, t)],
       200, "created")

\* update_issue to RESOLVED: the new status, the IssueUpdate and the
\* notification are only pending in the session when award_karma is called
\* (the handler's db.commit() comes after it), so the rollback discards
\* them; db.commit() then has nothing to write, db.refresh(issue) reloads
\* the stored row and the handler returns it
update_issue_karma_error(d, current_user, issue_id, priority, assigned_to_id, comment, t) ==
  IF update_issue(d, current_user, issue_id, RESOLVED, priority,
                  assigned_to_id, comment, t).status_code # 200
  THEN update_issue(d, current_user, issue_id, RESOLVED, priority,
                    assigned_to_id, comment, t)
  ELSE Response(award_karma_rollback(d), 200, "updated")

VoteOnIssueKarmaError ==
  \E u \in UserIds, i \in IssueIdInputs, vt \in VoteTypes :
    Handled("vote_on_issue", u, i, vt, vote_on_issue_karma_error(DB, u, i, vt))

AddCommentKarmaError ==
  \E u \in UserIds, i \in IssueIdInputs :
    Handled("add_comment", u, i, <<>>, add_comment_karma_error(DB, u, i))

CreateIssueKarmaError ==
  \E u \in UserIds, c \in CategoryInputs, p \in PriorityInputs,
     lat \in CoordinateInputs, lon \in CoordinateInputs :
    /\ Len(issues) < MaxIssues
    /\ Handled("create_issue", u, Len(issues) + 1, c,
               create_issue_karma_error(DB, u, c, p, lat, lon, now + 1))

UpdateIssueKarmaError ==
  \E u \in UserIds, i \in IssueIdInputs, p \in PriorityUpdateInputs,
     a \in AssigneeInputs, c \in BOOLEAN :
    LET r == update_issue_karma_error(DB, u, i, p, a, c, now + 1)
    IN Handled("update_issue", u, i,
               IF r.status_code = 200 THEN <<RESOLVED, c>> ELSE <<>>, r)

\* the rewarded actions, with and without a store error in award_karma
NextKarmaError ==
  \/ CreateIssue
  \/ CreateIssueKarmaError
  \/ VoteOnIssueKarmaError
  \/ AddCommentKarmaError
  \/ UpdateIssueKarmaError

SpecKarmaError == Init /\ [][NextKarmaError]_vars

\* C27: a comment added to an issue creates exactly one notification for
\* the issue's reporter and one for its assignee, except for the commenter,
\* who gets none.
C27_CommentNotifies ==
  [][ \A i \in IssueIds :
        ( /\ last'.op = "add_comment"
          /\ last'.status_code = 200
          /\ last'.issue_id = i )
        => \A u \in DOMAIN users :
             notifications_of(notifications', u)
               - notifications_of(notifications, u)
               = (IF u # last'.user
                     /\ u \in {issues[i].reporter_id, issues[i].assigned_to_id}
                  THEN 1 ELSE 0) ]_vars

\* C28: a failure of award_karma never undoes the action that triggered
\* it: a vote_on_issue, add_comment, create_issue or update_issue to
\* RESOLVED that answers 200 has committed its vote / comment / issue /
\* status change with its audit record and notification.
C28_KarmaFailureKeepsPrimaryAction ==
  [][ /\ (last'.op = "vote_on_issue" /\ last'.status_code = 200)
         => CopiesIn(IssueVote(last'.issue_id, last'.user, last'.arg), votes')
              = CopiesIn(IssueVote(last'.issue_id, last'.user, last'.arg),
                         votes) + 1
      /\ (last'.op = "add_comment" /\ last'.status_code = 200)
         => BagCardinality(comments') = BagCardinality(comments) + 1
      /\ (last'.op = "create_issue" /\ last'.status_code = 200)
         => Len(issues') = Len(issues) + 1
      /\ (last'.op = "update_issue" /\ last'.status_code = 200)
         => (last'.arg[1] = RESOLVED
             => /\ issues'[last'.issue_id].status = RESOLVED
                /\ BagCardinality(updates') = BagCardinality(updates) + 1
                /\ notifications_of(notifications',
                                    issues[last'.issue_id].reporter_id)
                     = notifications_of(notifications,
                                        issues[last'.issue_id].reporter_id)
                       + 1) ]_vars

\* C29: an action is all-or-nothing against the store: an auto-route that
\* reports a failure leaves none of its writes behind, so the issue keeps
\* the department, assignee and status it had and no notification is added.
C29_FailedAutoRouteWritesNothing ==
  [][ (last'.op = "auto_route_issue" /\ last'.status_code # 200)
      => /\ issues' = issues
         /\ notifications' = notifications ]_vars

\* C30: when two concurrent votes of two different users for the same issue
\* and vote type have both succeeded, neither increment is lost: the tally
\* of that type has risen by 2 and equals the number of vote records of
\* that type on the issue, and urgency_score matches the tallies.
C30_ConcurrentVotesBothCounted ==
  \A r1, r2 \in 1..MaxRequests :
    ( /\ r1 # r2
      /\ reqs[r1].pc = "done"
      /\ reqs[r2].pc = "done"
      /\ reqs[r1].status_code = 200
      /\ reqs[r2].status_code = 200
      /\ reqs[r1].issue_id = reqs[r2].issue_id
      /\ reqs[r1].vote_type = reqs[r2].vote_type
      /\ reqs[r1].user # reqs[r2].user )
    => LET issue == issues[reqs[r1].issue_id]
           cast == SumCopies(votes, {v \in Rows(votes) :
                      /\ v.issue_id = reqs[r1].issue_id
                      /\ v.vote_type = reqs[r1].vote_type})
           tally == IF reqs[r1].vote_type = "upvote" THEN issue.upvotes
                    ELSE issue.confirmations
       IN /\ cast = 2
          /\ tally = 2
          /\ issue.urgency_score = (2 * issue.upvotes) + issue.confirmations

C32_KarmaNeverDecreases ==
  [][ \A u \in DOMAIN users :
        users'[u].civic_karma >= users[u].civic_karma ]_vars

\* a user who earned karma by voting took the vote back
C32_Witness ==
  /\ last.op = "remove_vote"
  /\ last.status_code = 200
  /\ users[last.user].civic_karma >= 1
  /\ ~ existing_vote(DB, last.issue_id, last.user, last.arg)

\* C33: the lifecycle timestamps are stamped once: when an issue's
\* acknowledged_at (resolved_at) is set, no step of update_issue,
\* assign_issue or automatic assignment changes its value.
C33_TimestampsStampedOnce ==
  [][ \A i \in IssueIds :
        /\ (issues[i].acknowledged_at # None)
             => (issues'[i].acknowledged_at = issues[i].acknowledged_at)
        /\ (issues[i].resolved_at # None)
             => (issues'[i].resolved_at = issues[i].resolved_at) ]_vars

\* C34: update_issue by an administrator or a member of the department
\* staff on an existing issue is never refused and leaves the issue in the
\* status requested, whatever the status was: also out of RESOLVED, CLOSED
\* and REJECTED and back to SUBMITTED.
C34_AnyStatusFromAnyStatus ==
  [][ ( /\ last'.op = "update_issue"
        /\ last'.issue_id \in IssueIds
        /\ users[last'.user].role # CITIZEN )
      => /\ last'.status_code = 200
         /\ (last'.arg[1] # NoStatus)
              => (issues'[last'.issue_id].status = last'.arg[1]) ]_vars

\* an issue that was resolved is back in SUBMITTED
C34_Witness ==
  /\ last.op = "update_issue"
  /\ last.status_code = 200
  /\ last.arg[1] = SUBMITTED
  /\ issues[last.issue_id].status = SUBMITTED
  /\ issues[last.issue_id].resolved_at # None

\* C35: when update_issue changes the status of an issue from A to another
\* status B, a notification created for the reporter by that request tells
\* the change from A to B.
C35_NotificationTellsStatusChange ==
  [][ \A i \in IssueIds :
        ( /\ last'.op = "update_issue"
          /\ last'.issue_id = i
          /\ last'.status_code = 200
          /\ last'.arg[1] # NoStatus
          /\ last'.arg[1] # issues[i].status )
        => \E n \in Rows(notifications') :
             /\ CopiesIn(n, notifications') > CopiesIn(n, notifications)
             /\ n.user_id = issues[i].reporter_id
             /\ n.issue_id = i
             /\ n.title = "Issue Update"
             /\ n.message[1] = <<issues[i].status, last'.arg[1]>> ]_vars

votes_of_type(i, vote_type) ==
  SumCopies(votes, {v \in Rows(votes) :
                      v.issue_id = i /\ v.vote_type = vote_type})

\* C37: when requests run one after the other, every issue's upvotes is the
\* number of its 'upvote' vote records and its confirmations the number of
\* its 'confirm' vote records, from the sample data on; so no tally is
\* negative and remove_vote never subtracts from a tally of 0.
C37_TalliesCountVotes ==
  \A i \in IssueIds :
    /\ issues[i].upvotes = votes_of_type(i, "upvote")
    /\ issues[i].confirmations = votes_of_type(i, "confirm")
    /\ issues[i].upvotes >= 0
    /\ issues[i].confirmations >= 0

\* a vote of the sample data was taken back and another one remains
C37_Witness ==
  /\ last.op = "remove_vote"
  /\ last.status_code = 200
  /\ last.arg = "upvote"
  /\ issues[last.issue_id].upvotes = 1
  /\ votes_of_type(last.issue_id, "upvote") = 1

\* C38: in every reachable state the assignee of an issue, when set, is an
\* existing user whose role is not CITIZEN, whether assign_issue, the
\* automatic assignment or update_issue set it.
C38_AssigneeIsNotCitizen ==
  \A i \in IssueIds :
    (issues[i].assigned_to_id # None)
    => /\ issues[i].assigned_to_id \in DOMAIN users
       /\ users[issues[i].assigned_to_id].role # CITIZEN

\* C39: remove_vote changes no user's karma and no badges, so the point a
\* vote earned is kept: every vote cast adds 1 to the voter's karma and 1
\* to the tally, every vote removed takes 1 from the tally and nothing
\* from the karma, and a user who votes and removes n times has n more
\* karma on unchanged tallies.
C39_RemoveVoteKeepsKarma ==
  [][ /\ (last'.op = "remove_vote") => UNCHANGED <<users, badges>>
      /\ (last'.op = "remove_vote" /\ last'.status_code = 200)
         => /\ CopiesIn(IssueVote(last'.issue_id, last'.user, last'.arg), votes')
                 = CopiesIn(IssueVote(last'.issue_id, last'.user, last'.arg),
                            votes) - 1
            /\ issues'[last'.issue_id].upvotes + issues'[last'.issue_id].confirmations
                 = (issues[last'.issue_id].upvotes
                    + issues[last'.issue_id].confirmations) - 1
      /\ (last'.op = "vote_on_issue" /\ last'.status_code = 200)
         => /\ users'[last'.user].civic_karma
                 = users[last'.user].civic_karma + 1
            /\ issues'[last'.issue_id].upvotes + issues'[last'.issue_id].confirmations
                 = (issues[last'.issue_id].upvotes
                    + issues[last'.issue_id].confirmations) + 1 ]_vars

\* the reporter of the sample issue has voted and removed the vote twice:
\* 2 more karma than the sample data gave, no vote held, and the tallies
\* those of the sample data (the upvotes of the two other citizens)
C39_Witness ==
  /\ last.op = "remove_vote"
  /\ last.status_code = 200
  /\ issues[last.issue_id].reporter_id = last.user
  /\ users[last.user].civic_karma = SampleUsers[last.user].civic_karma + 2
  /\ \A vt \in VoteTypes : ~ existing_vote(DB, last.issue_id, last.user, vt)
  /\ issues[last.issue_id].upvotes = 2
  /\ votes_of_type(last.issue_id, "upvote") = 2

\* the issues listed in the queue q
listed(q) == {q[a] : a \in DOMAIN q}

\* C40: a staff work queue that was returned lists, each once, exactly the
\* issues whose status is SUBMITTED or ACKNOWLEDGED (of the department
\* asked for, when one was given): no issue in another status is listed,
\* and an issue set back to one of the two is listed again.
C40_QueueMembership ==
  /\ (last.op = "get_priority_queue")
     => /\ listed(last.detail) =
             {i \in IssueIds :
                /\ issues[i].status \in {SUBMITTED, ACKNOWLEDGED}
                /\ (last.arg # NoDepartment)
                     => (issues[i].department = last.arg)}
        /\ Len(last.detail) = Cardinality(listed(last.detail))
  /\ (last.op = "admin_get_priority_queue" /\ last.status_code = 200)
     => /\ listed(last.detail) =
             {i \in IssueIds : issues[i].status \in {SUBMITTED, ACKNOWLEDGED}}
        /\ Len(last.detail) = Cardinality(listed(last.detail))

\* the queue of Public Works lists the road issue, which had been resolved
\* and was set back to SUBMITTED, and no other issue
C40_Witness ==
  /\ last.op = "get_priority_queue"
  /\ last.arg = "Public Works"
  /\ last.detail = <<1>>
  /\ issues[1].status = SUBMITTED
  /\ issues[1].resolved_at # None
  /\ issues[2].status \in {SUBMITTED, IN_PROGRESS}

====
